---- MODULE Spec2Model ----
(***************************************************************************)
(* Model of the accident-risk demo: the DataLoader class                   *)
(* (src/js/data-loader.js) and the UI handlers of app.js                   *)
(* (src/unnamed/part_002).                                                 *)
(*                                                                         *)
(* Conventions                                                             *)
(*  - A nullable JS value is a sequence of length 0 (null) or 1 (<<v>>).   *)
(*  - JS numbers are triples <<kind, n, d>>: <<"q", n, d>> is the rational *)
(*    n/d in lowest terms (d > 0), <<"sqrt", n, d>> is sign(n)*sqrt(|n|/d) *)
(*    when that is irrational, <<"inf", 1, 1>> and <<"inf", -1, 1>> are    *)
(*    +/-Infinity and <<"nan", 0, 1>> is NaN.                              *)
(*  - Row indices are 0-based as in the code; TLA+ sequences are 1-based,  *)
(*    so row i of raw is rows[i + 1].                                      *)
(*  - The JS value undefined, when it is an element of an index array, is  *)
(*    the integer Undefined (-1); a cell read from a missing key is the    *)
(*    string "undefined", which is what String(), Number() and             *)
(*    #toNumberMaybe make of it.                                           *)
(***************************************************************************)
EXTENDS Integers, Sequences, FiniteSets, Bags, TLC

\* ------------------------------------------------------------------------
\* Bounds of the model
\* ------------------------------------------------------------------------
MaxRows == 7
MaxPendingLoads == 1
MaxPendingCalls == 2

\* ------------------------------------------------------------------------
\* Generic helpers
\* ------------------------------------------------------------------------
None == <<>>
Some(x) == <<x>>
IsNull(o) == Len(o) = 0
Val(o) == o[1]

Undefined == -1

Abs(n) == IF n < 0 THEN -n ELSE n
MaxOf(a, b) == IF a >= b THEN a ELSE b
MinOf(a, b) == IF a <= b THEN a ELSE b

RECURSIVE Gcd(_, _)
Gcd(a, b) == IF b = 0 THEN a ELSE Gcd(b, a % b)

\* Array.prototype.map on sequences (filter is SelectSeq)
SeqMap(s, F(_)) == [i \in 1..Len(s) |-> F(s[i])]

Contains(s, v) == \E i \in 1..Len(s) : s[i] = v

\* [...new Set(s)]: distinct elements in order of first appearance
RECURSIVE Dedup(_)
Dedup(s) ==
  IF s = <<>> THEN <<>>
  ELSE LET d == Dedup(SubSeq(s, 1, Len(s) - 1))
           v == s[Len(s)]
       IN IF Contains(d, v) THEN d ELSE Append(d, v)

RECURSIVE Flatten(_)
Flatten(ss) == IF ss = <<>> THEN <<>> ELSE Head(ss) \o Flatten(Tail(ss))

\* ------------------------------------------------------------------------
\* JS numbers
\* ------------------------------------------------------------------------
NaN == <<"nan", 0, 1>>
PosInf == <<"inf", 1, 1>>
NegInf == <<"inf", -1, 1>>

Q(n, d) ==
  LET g == Gcd(Abs(n), Abs(d))
      s == IF d < 0 THEN -1 ELSE 1
  IN <<"q", (s * n) \div g, (s * d) \div g>>

Int2Num(n) == <<"q", n, 1>>
Zero == Int2Num(0)

\* Number.isFinite
IsFinite(x) == x[1] \in {"q", "sqrt"}

\* floor of the square root of n >= 0, by Newton's iteration from x
RECURSIVE Newton(_, _)
Newton(n, x) ==
  LET x2 == (x + n \div x) \div 2
  IN IF x2 >= x THEN x ELSE Newton(n, x2)

Root(n) == IF n < 2 THEN n ELSE Newton(n, n)
IsSquare(n) == Root(n) * Root(n) = n

\* Math.sqrt of the non-negative rational n/d
SqrtQ(n, d) ==
  LET q == Q(n, d)
  IN IF IsSquare(q[2]) /\ IsSquare(q[3])
     THEN <<"q", Root(q[2]), Root(q[3])>>
     ELSE <<"sqrt", q[2], q[3]>>

\* (a/b) / sqrt(n/d) for n/d > 0: sign(a) * sqrt(a^2 d / (b^2 n))
DivBySqrt(a, b, n, d) ==
  LET r == SqrtQ(a * a * d, b * b * n)
  IN IF a >= 0 THEN r ELSE <<r[1], -r[2], r[3]>>

\* Number(v) on the strings that occur as cells: '' is 0, a decimal numeral
\* is its value, anything else (a word, 'undefined') is NaN.
Numerals == ("0" :> 0) @@ ("1" :> 1) @@ ("2" :> 2) @@ ("3" :> 3) @@ ("4" :> 4)
            @@ ("5" :> 5) @@ ("6" :> 6) @@ ("7" :> 7) @@ ("8" :> 8) @@ ("9" :> 9)
            @@ ("10" :> 10) @@ ("11" :> 11) @@ ("12" :> 12)

Number(v) ==
  IF v = "" THEN Zero
  ELSE IF v \in DOMAIN Numerals THEN Int2Num(Numerals[v])
  ELSE NaN

toNumberMaybe(v) ==
  IF v = "" THEN NaN
  ELSE LET n == Number(v) IN IF IsFinite(n) THEN n ELSE NaN

\* ------------------------------------------------------------------------
\* #shuffle: Fisher-Yates driven by s = (s*16807) % 2147483647
\* ------------------------------------------------------------------------
LcgMul == 16807
LcgMod == 2147483647
\* LcgMod = LcgMul * LcgQ + LcgR; used to form (s*16807) % 2147483647 without
\* leaving 32-bit integers (the code works in doubles, where the product is exact)
LcgQ == LcgMod \div LcgMul
LcgR == LcgMod % LcgMul

\* (s * 16807) % 2147483647 with the sign of the dividend, as JS's % has
LcgNext(s) ==
  LET a == Abs(s)
      t == LcgMul * (a % LcgQ) - LcgR * (a \div LcgQ)
      r == IF t < 0 THEN t + LcgMod ELSE t
  IN IF s < 0 THEN -r ELSE r

\* Math.floor((s / 2147483647) * k) for |s| < 2147483647, 1 <= k
FloorScaled(s, k) ==
  LET a == LcgMod \div k
      b == LcgMod % k
      m == Abs(s)
      c == m \div a
      d == m % a
      f == c + (IF d * k - c * b >= 0 THEN 0 ELSE -1)
  IN IF s >= 0 THEN f ELSE -(f + 1)

\* The array a of #shuffle: integer keys 0..n-1 are its elements, negative keys
\* are the extra properties that a[j] = ... creates when j < 0.
RECURSIVE ShuffleLoop(_, _, _)
ShuffleLoop(a, s, i) ==
  IF i <= 0 THEN a
  ELSE LET s2 == LcgNext(s)
           j == FloorScaled(s2, i + 1)
           swapped == [a EXCEPT ![i] = a[j], ![j] = a[i]]
       IN ShuffleLoop(swapped, s2, i - 1)

\* [...Array(n).keys()] shuffled in place; the result is the array part
Shuffle(n, seed) ==
  LET a0 == [k \in (-n)..(n - 1) |-> IF k >= 0 THEN k ELSE Undefined]
      a == ShuffleLoop(a0, seed, n - 1)
  IN [p \in 1..n |-> a[p - 1]]

\* ------------------------------------------------------------------------
\* CSV text and #parseCSV
\* A text is the sequence of its lines as split(/\r?\n/) cuts them, each line
\* the non-empty sequence of its trimmed cells as split(',') cuts them; an
\* empty line is the single cell ''.  The empty text is the single line [''].
\* ------------------------------------------------------------------------
EmptyText == << <<"">> >>

\* a property name that is an array index: the canonical decimal numeral of
\* an integer
IsArrayIndex(h) == h \in DOMAIN Numerals

\* Object.keys of a plain object whose properties were created in the order
\* of names: the array indices first, ascending, then the other names in the
\* order of creation
OwnKeys(names) ==
  LET created == Dedup(names)
      indices == {created[i] : i \in {j \in 1..Len(created) : IsArrayIndex(created[j])}}
      ascending == [i \in 1..Cardinality(indices) |->
                      CHOOSE h \in indices :
                        Cardinality({g \in indices : Numerals[g] < Numerals[h]}) = i - 1]
  IN ascending \o SelectSeq(created, LAMBDA h : ~IsArrayIndex(h))

\* A row object: its keys in Object.keys order and its cells by key. A header
\* that repeats keeps its last cell; an assignment to __proto__ of a string
\* creates no key
MkRow(headers, cells) ==
  [keys |-> OwnKeys(SelectSeq(headers, LAMBDA h : h # "__proto__")),
   get |-> [h \in {headers[i] : i \in 1..Len(headers)} \ {"__proto__"} |->
              LET i == CHOOSE k \in 1..Len(headers) :
                         headers[k] = h /\ \A j \in (k + 1)..Len(headers) : headers[j] # h
              IN IF i > Len(cells) THEN "" ELSE cells[i]]]

\* the names every plain object ({}) inherits from Object.prototype, each a
\* function
ObjectPrototypeKeys ==
  {"constructor", "hasOwnProperty", "isPrototypeOf", "propertyIsEnumerable",
   "toLocaleString", "toString", "valueOf", "__defineGetter__", "__defineSetter__",
   "__lookupGetter__", "__lookupSetter__"}

\* every inherited name: the functions, and __proto__, which reads as
\* Object.prototype itself
InheritedKeys == ObjectPrototypeKeys \cup {"__proto__"}

\* String() of the inherited member k: a native function prints its own
\* name (the constructor is Object), Object.prototype prints as an object
InheritedFunction(k) ==
  IF k = "__proto__" THEN "[object Object]"
  ELSE "function " \o (IF k = "constructor" THEN "Object" ELSE k) \o "() { [native code] }"

\* r[k] as the code uses it (through String() or Number()): a missing key
\* reads as undefined, unless the row object inherits a member of that name
Get(r, k) ==
  IF k \in DOMAIN r.get THEN r.get[k]
  ELSE IF k \in InheritedKeys THEN InheritedFunction(k)
  ELSE "undefined"

\* text.trim() on the lines of a text: the empty lines at its start and at
\* its end go; a text of empty lines only is the empty text
RECURSIVE trimStart(_)
trimStart(text) ==
  IF Len(text) > 1 /\ Head(text) = <<"">> THEN trimStart(Tail(text)) ELSE text

RECURSIVE trimEnd(_)
trimEnd(text) ==
  IF Len(text) > 1 /\ text[Len(text)] = <<"">>
  THEN trimEnd(SubSeq(text, 1, Len(text) - 1))
  ELSE text

trim(text) == trimStart(trimEnd(text))

parseCSV(text) ==
  LET headers == Head(trim(text))
      lines == Tail(trim(text))
  IN [i \in 1..Len(lines) |-> MkRow(headers, lines[i])]

\* ------------------------------------------------------------------------
\* #inferSchema
\* ------------------------------------------------------------------------
Target == "accident_risk"

knownCategoricals == {"road_type", "lighting", "weather", "time_of_day",
                      "road_signs_present", "public_road", "holiday", "school_season"}
knownNumeric == {"num_lanes", "curvature", "speed_limit", "num_reported_accidents"}

SampleSize == 5000
MaxUniq == 10

\* the integers of the finite entries of a sequence of numbers that are all
\* integers or non-finite (parsed cells, 0/1 flags)
FiniteInts(nums) == SeqMap(SelectSeq(nums, IsFinite), LAMBDA x : x[2])

RECURSIVE SumSeq(_)
SumSeq(s) == IF s = <<>> THEN 0 ELSE Head(s) + SumSeq(Tail(s))

\* Math.min(...arr), Math.max(...arr)
MathMin(arr) ==
  IF arr = <<>> THEN PosInf
  ELSE Int2Num(CHOOSE m \in {arr[i] : i \in 1..Len(arr)} :
                 \A i \in 1..Len(arr) : m <= arr[i])
MathMax(arr) ==
  IF arr = <<>> THEN NegInf
  ELSE Int2Num(CHOOSE m \in {arr[i] : i \in 1..Len(arr)} :
                 \A i \in 1..Len(arr) : m >= arr[i])

\* sum of (v - mean)^2 times Len(arr)^2, an integer: mean = SumSeq(arr)/Len(arr)
SqDevScaled(arr) ==
  SumSeq(SeqMap(arr, LAMBDA v : (v * Len(arr) - SumSeq(arr)) * (v * Len(arr) - SumSeq(arr))))

\* Math.sqrt(arr.reduce((s,v)=>s+(v-mean)*(v-mean),0) / Math.max(1, arr.length-1))
StdOf(arr) ==
  IF arr = <<>> THEN Zero
  ELSE SqrtQ(SqDevScaled(arr), Len(arr) * Len(arr) * MaxOf(1, Len(arr) - 1))

\* arr.reduce((a,b)=>a+b,0) / arr.length || 0   (0/0 is NaN, and NaN || 0 is 0)
MeanOf(arr) == IF arr = <<>> THEN Zero ELSE Q(SumSeq(arr), Len(arr))

\* let type = 'numeric', then the name lists, then the sniff on the sample
inferType(raw, col) ==
  LET t0 == "numeric"
      t1 == IF col \in knownCategoricals THEN "categorical" ELSE t0
      t2 == IF col \in knownNumeric THEN "numeric" ELSE t1
      sampleVals == SeqMap(SubSeq(raw, 1, MinOf(SampleSize, Len(raw))),
                           LAMBDA r : Get(r, col))
      nNumeric == Len(SelectSeq(sampleVals, LAMBDA v : IsFinite(Number(v))))
      uniq == {sampleVals[i] : i \in 1..Len(sampleVals)}
      \* numericRatio > 0.9, i.e. nNumeric / length > 9/10
      t3 == IF 10 * nNumeric > 9 * Len(sampleVals) THEN "numeric" ELSE t2
      t4 == IF Cardinality(uniq) <= MaxUniq THEN "categorical" ELSE t3
  IN IF col \notin knownCategoricals /\ col \notin knownNumeric THEN t4 ELSE t2

numericStats(raw, col) ==
  LET arr == FiniteInts(SeqMap(raw, LAMBDA r : toNumberMaybe(Get(r, col))))
  IN [min |-> MathMin(arr), max |-> MathMax(arr), mean |-> MeanOf(arr),
      std |-> StdOf(arr), count |-> Len(arr)]

distinctValuesNoSet(raw, col) ==
  SelectSeq(SeqMap(raw, LAMBDA r : Get(r, col)), LAMBDA v : v # "" /\ v # "undefined")

\* [...uniq].filter(v => v !== '' && v !== 'undefined')
distinctValues(raw, col) ==
  SelectSeq(Dedup(SeqMap(raw, LAMBDA r : Get(r, col))),
            LAMBDA v : v # "" /\ v # "undefined")

\* v.toLowerCase() on the strings that occur as cells
toLowerCase(v) ==
  IF v \in {"True", "TRUE", "true"} THEN "true"
  ELSE IF v \in {"False", "FALSE", "false"} THEN "false"
  ELSE v

isBooleanValues(values) ==
  \A i \in 1..Len(values) : toLowerCase(values[i]) \in {"true", "false"}

describeFeature(raw, col) ==
  LET type == inferType(raw, col)
  IN IF type = "numeric"
     THEN [name |-> col, type |-> "numeric",
           stats |-> Some(numericStats(raw, col)), values |-> None]
     ELSE LET values == distinctValues(raw, col)
          IN IF isBooleanValues(values)
             THEN [name |-> col, type |-> "boolean", stats |-> None,
                   values |-> Some(<<"True", "False">>)]
             ELSE [name |-> col, type |-> "categorical", stats |-> None,
                   values |-> Some(values)]

\* the guard of #inferSchema: no row, or no target key in the first row
inferSchemaThrows(raw) == Len(raw) = 0 \/ Target \notin DOMAIN raw[1].get

\* the schema object; features keeps the columns in Object.keys order
inferSchema(raw) ==
  LET cols == SelectSeq(raw[1].keys, LAMBDA k : k # Target)
  IN [cols |-> cols,
      features |-> [c \in {cols[i] : i \in 1..Len(cols)} |-> describeFeature(raw, c)],
      target |-> Target]

\* ------------------------------------------------------------------------
\* prepareMatrices
\* ------------------------------------------------------------------------
FeatureSeq(schema) == SeqMap(schema.cols, LAMBDA k : schema.features[k])

\* f.values || []
ValuesOrEmpty(f) == IF IsNull(f.values) THEN <<>> ELSE Val(f.values)

\* this.encoders after the first loop: one list of category strings per
\* categorical feature
buildEncoders(schema) ==
  [k \in {c \in DOMAIN schema.features : schema.features[c].type = "categorical"} |->
     ValuesOrEmpty(schema.features[k])]

\* this.encoders[k] || []
Cats(encoders, k) == IF k \in DOMAIN encoders THEN encoders[k] ELSE <<>>

featNamesOfNoBoolean(f) ==
  IF f.type = "numeric" THEN << <<f.name>> >>
  ELSE IF f.type = "categorical"
       THEN SeqMap(ValuesOrEmpty(f), LAMBDA v : <<f.name, v>>)
       ELSE <<>>

\* the names pushed for one feature: k, or k__v for every category v
featNamesOf(f) ==
  IF f.type \in {"numeric", "boolean"} THEN << <<f.name>> >>
  ELSE IF f.type = "categorical"
       THEN SeqMap(ValuesOrEmpty(f), LAMBDA v : <<f.name, v>>)
       ELSE <<>>

buildFeatNames(schema) == Flatten(SeqMap(FeatureSeq(schema), featNamesOf))

\* what one feature pushes onto the row
encodeCell(r, f, encoders) ==
  IF f.type = "numeric" THEN <<toNumberMaybe(Get(r, f.name))>>
  ELSE IF f.type = "boolean"
       THEN <<IF Get(r, f.name) = "True" THEN Int2Num(1) ELSE Zero>>
  ELSE IF f.type = "categorical"
       THEN SeqMap(Cats(encoders, f.name),
                   LAMBDA v : IF Get(r, f.name) = v THEN Int2Num(1) ELSE Zero)
       ELSE <<>>

encodeRow(r, schema, encoders) ==
  Flatten(SeqMap(FeatureSeq(schema), LAMBDA f : encodeCell(r, f, encoders)))

encodeX(raw, schema, encoders) == SeqMap(raw, LAMBDA r : encodeRow(r, schema, encoders))

encodeY(raw, schema) == SeqMap(raw, LAMBDA r : <<Number(Get(r, schema.target))>>)

RECURSIVE numericColWalkUnitWidth(_, _, _)
numericColWalkUnitWidth(feats, encoders, colPointer) ==
  IF feats = <<>> THEN <<>>
  ELSE IF Head(feats).type \in {"numeric", "boolean"}
       THEN <<colPointer>> \o numericColWalkUnitWidth(Tail(feats), encoders, colPointer + 1)
       ELSE numericColWalkUnitWidth(Tail(feats), encoders, colPointer + 1)

\* the colPointer walk: the 0-based columns of numeric and boolean features
RECURSIVE numericColWalk(_, _, _)
numericColWalk(feats, encoders, colPointer) ==
  IF feats = <<>> THEN <<>>
  ELSE LET f == Head(feats)
       IN IF f.type \in {"numeric", "boolean"}
          THEN <<colPointer>> \o numericColWalk(Tail(feats), encoders, colPointer + 1)
          ELSE IF f.type = "categorical"
               THEN numericColWalk(Tail(feats), encoders,
                                   colPointer + Len(Cats(encoders, f.name)))
               ELSE numericColWalk(Tail(feats), encoders, colPointer)

numericColIdx(schema, encoders) == numericColWalk(FeatureSeq(schema), encoders, 0)

\* Xmat.map(r => r[c]).filter(Number.isFinite) and its statistics
colStats(Xmat, c) ==
  LET col == FiniteInts(SeqMap(Xmat, LAMBDA r : r[c + 1]))
  IN [min |-> MathMin(col), max |-> MathMax(col),
      mean |-> Q(SumSeq(col), MaxOf(1, Len(col))), std |-> StdOf(col)]

\* this.scalers.stats: starts from base ({}) and gets one entry per numeric column
fitStats(base, Xmat, cols) ==
  [c \in (DOMAIN base) \cup {cols[i] : i \in 1..Len(cols)} |->
     IF Contains(cols, c) THEN colStats(Xmat, c) ELSE base[c]]

\* one cell of a numeric column after scaling; v is an integer or NaN
scaleCell(v, st, scalerType) ==
  IF ~IsFinite(v) THEN Zero
  ELSE IF scalerType = "minmax"
       THEN LET span == st.max[2] - st.min[2]
                d == IF span = 0 THEN 1 ELSE span
            IN Q(v[2] - st.min[2], d)
       ELSE LET m == st.mean
            IN IF st.std = Zero
               THEN Q(v[2] * m[3] - m[2], m[3])
               ELSE IF st.std[1] = "q"
                    THEN Q((v[2] * m[3] - m[2]) * st.std[3], m[3] * st.std[2])
                    ELSE DivBySqrt(v[2] * m[3] - m[2], m[3], st.std[2], st.std[3])

applyScaling(Xmat, cols, stats, scalerType) ==
  [i \in 1..Len(Xmat) |->
     [p \in 1..Len(Xmat[i]) |->
        IF Contains(cols, p - 1)
        THEN scaleCell(Xmat[i][p], stats[p - 1], scalerType)
        ELSE Xmat[i][p]]]

\* Math.floor(nRows*0.7) and Math.floor(nRows*0.15); the doubles give the
\* exact floors for every nRows below 90
nTrainOf(nRows) == (7 * nRows) \div 10
nValOf(nRows) == (15 * nRows) \div 100

makeSplit(nRows, seed) ==
  LET idx == Shuffle(nRows, seed)
      nTrain == nTrainOf(nRows)
      nVal == nValOf(nRows)
  IN [idxTrain |-> SubSeq(idx, 1, nTrain),
      idxVal |-> SubSeq(idx, nTrain + 1, nTrain + nVal),
      idxTest |-> SubSeq(idx, nTrain + nVal + 1, nRows)]

EmptyEncoders == [k \in {} |-> <<>>]
EmptyStats == [c \in {} |-> <<>>]

\* the stats object that this.scalers = { type: scalerType, stats: {} } starts from
statsKeptFromBefore(L) == L.scalers.stats
initialStats(L) == EmptyStats

\* prepareMatrices on the loader L.  With no schema the first loop throws a
\* TypeError, after this.encoders = {}.
prepareMatrices(L, scalerType, seed) ==
  IF IsNull(L.schema)
  THEN [threw |-> TRUE, L |-> [L EXCEPT !.encoders = EmptyEncoders], val |-> <<>>]
  ELSE LET schema == Val(L.schema)
           rows == Val(L.raw)
           enc == buildEncoders(schema)
           X0 == encodeX(rows, schema, enc)
           y0 == encodeY(rows, schema)
           cols == numericColIdx(schema, enc)
           stats == fitStats(initialStats(L), X0, cols)
           Xs == applyScaling(X0, cols, stats, scalerType)
       IN [threw |-> FALSE,
           L |-> [L EXCEPT !.encoders = enc,
                           !.scalers = [type |-> Some(scalerType), stats |-> stats],
                           !.X = Some(Xs),
                           !.y = Some(y0),
                           !.split = makeSplit(Len(X0), seed)],
           val |-> buildFeatNames(schema)]

\* ------------------------------------------------------------------------
\* Filter descriptors and the two row loops
\* A descriptor maps some feature names to an entry {min, max, mode, set};
\* a name outside its domain has no entry (filters[k] is undefined).
\* ------------------------------------------------------------------------
FilterEntry(min, max, mode, set) ==
  [min |-> min, max |-> max, mode |-> Some(mode), set |-> set]
NoConstraint == FilterEntry(NegInf, PosInf, "any", {})

\* a < b on integers and the infinities
NumLt(a, b) ==
  IF a[1] = "nan" \/ b[1] = "nan" THEN FALSE
  ELSE IF a[1] = "inf" THEN a[2] < 0 /\ b # NegInf
  ELSE IF b[1] = "inf" THEN b[2] > 0
  ELSE a[2] * b[3] < b[2] * a[3]

\* filters[k] of a descriptor built as a plain object: its own entry, else
\* the member of that name inherited from Object.prototype (truthy, with
\* min, max, mode and set all undefined), else undefined
InheritedMember == [min |-> NaN, max |-> NaN, mode |-> None, set |-> {}]

\* !(flt.mode !== 'any' && String(v) !== flt.mode): an undefined mode equals
\* neither 'any' nor any string
modePasses(v, flt) == flt.mode = Some("any") \/ flt.mode = Some(v)
HasEntry(filters, k) == k \in DOMAIN filters \/ k \in InheritedKeys
EntryOf(filters, k) == IF k \in DOMAIN filters THEN filters[k] ELSE InheritedMember

\* one feature's test inside the loop of indicesByFilters: TRUE when the row
\* survives this feature
featureOkIndices(v, f, filters) ==
  IF ~HasEntry(filters, f.name) THEN TRUE
  ELSE LET flt == EntryOf(filters, f.name)
       IN IF f.type = "numeric"
          THEN LET n == toNumberMaybe(v)
               IN IF ~IsFinite(n) THEN FALSE
                  ELSE ~(NumLt(n, flt.min) \/ NumLt(flt.max, n))
          ELSE IF f.type = "boolean"
               THEN modePasses(v, flt)
          ELSE IF f.type = "categorical"
               THEN ~(flt.set # {} /\ v \notin flt.set)
               ELSE TRUE

\* the same test as written in getFilteredTest
featureOkFiltered(v, f, filters) ==
  IF ~HasEntry(filters, f.name) THEN TRUE
  ELSE LET flt == EntryOf(filters, f.name)
       IN IF f.type = "numeric"
          THEN LET n == toNumberMaybe(v)
               IN ~(~IsFinite(n) \/ NumLt(n, flt.min) \/ NumLt(flt.max, n))
          ELSE IF f.type = "boolean"
               THEN modePasses(v, flt)
          ELSE IF f.type = "categorical"
               THEN ~(flt.set # {} /\ v \notin flt.set)
               ELSE TRUE

rowOkIndices(r, schema, filters) ==
  \A i \in 1..Len(schema.cols) :
    featureOkIndices(Get(r, schema.cols[i]), schema.features[schema.cols[i]], filters)

rowOkFiltered(r, schema, filters) ==
  \A i \in 1..Len(schema.cols) :
    featureOkFiltered(Get(r, schema.cols[i]), schema.features[schema.cols[i]], filters)

\* raw[i] is undefined: i is undefined or past the end
NoRow(rows, i) == i < 0 \/ i >= Len(rows)

\* X[i], y[i]; undefined when i is undefined or past the end
UndefinedRow == << <<"undefined", 0, 1>> >>
At(m, i) == IF i < 0 \/ i >= Len(m) THEN UndefinedRow ELSE m[i + 1]

\* indicesByFilters: this.raw.length throws on a null raw, and the feature
\* loop throws on a null schema as soon as there is a row
indicesByFilters(L, filters) ==
  IF IsNull(L.raw) THEN [threw |-> TRUE, val |-> <<>>]
  ELSE IF IsNull(L.schema) /\ Len(Val(L.raw)) > 0 THEN [threw |-> TRUE, val |-> <<>>]
  ELSE LET rows == Val(L.raw)
           all == [p \in 1..Len(rows) |-> p - 1]
       IN [threw |-> FALSE,
           val |-> SelectSeq(all, LAMBDA i : rowOkIndices(rows[i + 1], Val(L.schema), filters))]

\* getFilteredTest: r[k] throws when raw[i] is undefined and the schema has a
\* feature; the loop needs raw and schema as soon as idxTest has an element
filteredTestThrows(L) ==
  /\ L.split.idxTest # <<>>
  /\ \/ IsNull(L.raw)
     \/ IsNull(L.schema)
     \/ IsNull(L.X)
     \/ /\ Len(Val(L.schema).cols) > 0
        /\ \E p \in 1..Len(L.split.idxTest) : NoRow(Val(L.raw), L.split.idxTest[p])

filteredTestPass(L, filters) ==
  SelectSeq(L.split.idxTest,
            LAMBDA i : \/ NoRow(Val(L.raw), i)
                       \/ rowOkFiltered(Val(L.raw)[i + 1], Val(L.schema), filters))

getFilteredTest(L, filters) ==
  IF filteredTestThrows(L) THEN [threw |-> TRUE, val |-> [X |-> <<>>, y |-> <<>>, n |-> -1]]
  ELSE LET pass == filteredTestPass(L, filters)
       IN [threw |-> FALSE,
           val |-> [X |-> SeqMap(pass, LAMBDA i : At(Val(L.X), i)),
                    y |-> SeqMap(pass, LAMBDA i : At(Val(L.y), i)),
                    n |-> Len(pass)]]

\* getTensors: idxs.map(i => this.X[i]) throws only on a null X with indices
partIdx(L, part) ==
  IF part = "train" THEN L.split.idxTrain
  ELSE IF part = "val" THEN L.split.idxVal
  ELSE L.split.idxTest

getTensors(L, part) ==
  LET idxs == partIdx(L, part)
  IN IF idxs # <<>> /\ IsNull(L.X) THEN [threw |-> TRUE, val |-> [X |-> <<>>, y |-> <<>>]]
     ELSE [threw |-> FALSE,
           val |-> [X |-> SeqMap(idxs, LAMBDA i : At(Val(L.X), i)),
                    y |-> SeqMap(idxs, LAMBDA i : At(Val(L.y), i))]]

\* ------------------------------------------------------------------------
\* loadCSV
\* ------------------------------------------------------------------------
SubsetSeed == 2024

sampleArray(arr, n, seed) ==
  LET idx == Shuffle(Len(arr), seed)
      chosen == SubSeq(idx, 1, MinOf(n, Len(arr)))
  IN SeqMap(chosen, LAMBDA i : arr[i + 1])

\* this.raw after lines 20-24
loadedRows(text, useSubset, subsetSize) ==
  LET rows == parseCSV(text)
  IN IF useSubset /\ Len(rows) > subsetSize
     THEN sampleArray(rows, subsetSize, SubsetSeed)
     ELSE rows

\* whether lines 21-24 sample the rows down
samplesSubset(text, useSubset, subsetSize) ==
  useSubset /\ Len(parseCSV(text)) > subsetSize

\* loadCSV from the point where its fetch has settled (lines 18-27): a
\* response that is not ok throws before anything is assigned; a text with
\* no row or no target throws in #inferSchema, after this.raw was assigned.
\* Only a call that does not throw sets the status, to 'data loaded'
loadCSV(L, ok, text, useSubset, subsetSize) ==
  IF ~ok THEN [threw |-> TRUE, L |-> L]
  ELSE LET rows == loadedRows(text, useSubset, subsetSize)
       IN IF inferSchemaThrows(rows)
          THEN [threw |-> TRUE, L |-> [L EXCEPT !.raw = Some(rows)]]
          ELSE [threw |-> FALSE,
                L |-> [L EXCEPT !.raw = Some(rows), !.schema = Some(inferSchema(rows))]]

\* the DataLoader after its constructor
NewLoader ==
  [raw |-> None, schema |-> None, encoders |-> EmptyEncoders,
   scalers |-> [type |-> None, stats |-> EmptyStats],
   X |-> None, y |-> None,
   split |-> [idxTrain |-> <<>>, idxVal |-> <<>>, idxTest |-> <<>>]]

\* ------------------------------------------------------------------------
\* Inputs
\* ------------------------------------------------------------------------
\* the records a source file is made of; line i of a text is record
\* ((i - 1) % Len(Table)) + 1 written in the order of the header
Rec(road, lanes, hol, zone, risk) ==
  [road_type |-> road, num_lanes |-> lanes, holiday |-> hol, zone |-> zone,
   accident_risk |-> risk]

Table ==
  << Rec("urban", "2", "True", "a", "0"),
     Rec("rural", "1", "False", "b", "1"),
     Rec("", "x", "True", "a", "1"),
     Rec("urban", "3", "False", "", "0"),
     Rec("highway", "", "true", "b", ""),
     Rec("rural", "2", "True", "a", "1"),
     Rec("urban", "1", "False", "c", "0"),
     Rec("highway", "3", "True", "b", "1") >>

HeaderA == <<"road_type", "num_lanes", "holiday", "accident_risk">>
HeaderB == <<"num_lanes", "zone", "road_type", "accident_risk">>
HeaderNoTarget == <<"road_type", "num_lanes">>
HeaderTargetOnly == <<"accident_risk">>

\* a text whose header holds two array indices out of order, and whose last
\* line is empty
IndexHeaderText ==
  << <<"road_type", "2", "1", "accident_risk">>,
     <<"urban", "3", "True", "0">>,
     <<"rural", "1", "False", "1">>,
     <<"urban", "2", "True", "1">>,
     <<"">> >>

\* a line with its trailing cells cut off when the record's last cell is ''
\* ("urban,3" instead of "urban,3,,")
LineOf(header, rec) ==
  LET full == [i \in 1..Len(header) |-> rec[header[i]]]
  IN IF full[Len(full)] = "" /\ Len(full) > 1 THEN SubSeq(full, 1, Len(full) - 1) ELSE full

TextOf(header, n) ==
  <<header>> \o [i \in 1..n |-> LineOf(header, Table[((i - 1) % Len(Table)) + 1])]

TextPool ==
  {EmptyText}
    \cup {TextOf(HeaderA, n) : n \in {MaxRows}}
    \cup {IndexHeaderText}
    \cup {TextOf(HeaderNoTarget, n) : n \in {2}}
    \cup {TextOf(HeaderTargetOnly, n) : n \in {2}}

SubsetSize == 2

LoadInput(ok, text, useSubset, subsetSize) ==
  [ok |-> ok, text |-> text, useSubset |-> useSubset, subsetSize |-> subsetSize]

\* a failed fetch, every text read whole, and the largest text sampled down
LoadInputs ==
  {LoadInput(FALSE, EmptyText, FALSE, SubsetSize)}
    \cup {LoadInput(TRUE, text, FALSE, SubsetSize) : text \in TextPool}
    \cup {LoadInput(TRUE, TextOf(HeaderA, MaxRows), TRUE, SubsetSize)}

\* the failed fetch and the texts read whole that have a target column
CoreInputs ==
  {inp \in LoadInputs : ~inp.useSubset /\ inp.text # TextOf(HeaderNoTarget, 2)}

ScalerTypes == {"minmax", "standard"}
DefaultSeed == 2025
SeedPool == {-1, DefaultSeed}
Parts == {"train", "val", "test"}

\* descriptors a readFilterFn may return
FilterPool ==
  { [k \in {} |-> NoConstraint],
    [k \in {"road_type", "holiday"} |->
       IF k = "road_type" THEN FilterEntry(NegInf, PosInf, "any", {"urban"})
       ELSE FilterEntry(NegInf, PosInf, "True", {})],
    [k \in {"num_lanes", "ghost"} |-> FilterEntry(Int2Num(8), Int2Num(9), "False", {"none"})] }

\* ------------------------------------------------------------------------
\* State
\* ------------------------------------------------------------------------
VARIABLES
  raw, schema, encoders, scalers, X, y, split,   \* the DataLoader's fields
  LOADER, MODEL, featNames,                      \* the globals of app.js
  status,                                        \* the text of the status element
  logged,                                        \* what the last call or handler logged
  calls,                                         \* model and chart calls of the last handler
  idb,                                           \* the model saved in IndexedDB
  pendingLoads,                                  \* loadIndexedDB calls not yet settled
  pendingCalls,                                  \* loadCSV calls not yet settled, a bag
  pendingSaves,                                  \* saveIndexedDB calls not yet settled
  pendingExports,                                \* exportDownloads calls not yet settled
  busy,                                          \* the onLoadData or onTrain under way
  handler,                                       \* the UI handler that ran last
  ret,                                           \* the DataLoader call of the last step, if any
  schemaRaw,                                     \* the rows the schema was inferred from
  seen                                           \* return values of getFilteredTest, by situation

loaderVars == <<raw, schema, encoders, scalers, X, y, split>>
appVars ==
  <<LOADER, MODEL, featNames, calls, idb, pendingLoads, pendingSaves, pendingExports,
    busy, handler>>
vars == <<raw, schema, encoders, scalers, X, y, split, LOADER, MODEL, featNames,
          status, logged, calls, idb, pendingLoads, pendingCalls, pendingSaves,
          pendingExports, busy, handler, ret, schemaRaw, seen>>

\* the DataLoader object as one record
Loader ==
  [raw |-> raw, schema |-> schema, encoders |-> encoders, scalers |-> scalers,
   X |-> X, y |-> y, split |-> split]

SetLoader(L) ==
  /\ raw' = L.raw
  /\ schema' = L.schema
  /\ encoders' = L.encoders
  /\ scalers' = L.scalers
  /\ X' = L.X
  /\ y' = L.y
  /\ split' = L.split

\* ret: the method called last, its arguments, whether it threw, what it returned,
\* and (prior) the scaler type the loader held when it was called
MkRet(op, arg, threw, val) ==
  [op |-> op, arg |-> arg, threw |-> threw, val |-> val, prior |-> scalers.type]

NoRet == [op |-> "none", arg |-> <<>>, threw |-> FALSE, val |-> <<>>, prior |-> None]

InitFields ==
  /\ raw = NewLoader.raw
  /\ schema = NewLoader.schema
  /\ encoders = NewLoader.encoders
  /\ scalers = NewLoader.scalers
  /\ X = NewLoader.X
  /\ y = NewLoader.y
  /\ split = NewLoader.split
  /\ MODEL = None
  /\ featNames = None
  /\ status = "ready"
  /\ logged = <<>>
  /\ calls = <<>>
  /\ pendingLoads = 0
  /\ pendingCalls = EmptyBag
  /\ pendingSaves = <<>>
  /\ pendingExports = <<>>
  /\ busy = None
  /\ handler = "none"
  /\ ret = NoRet
  /\ schemaRaw = None
  /\ seen = {}

\* a DataLoader right after new DataLoader(log, setStatus)
Init == InitFields /\ LOADER = "DataLoader" /\ idb = None

\* ------------------------------------------------------------------------
\* The DataLoader's methods as actions
\* ------------------------------------------------------------------------
\* ------------------------------------------------------------------------
\* One-column texts for schema inference: a column name, a row count and a
\* pattern of cell values
\* ------------------------------------------------------------------------
MaxInferRows == 12

Words == <<"a", "b", "c", "d", "e", "f", "g", "h", "i", "j", "k", "l", "m", "n">>
WordOf(i) == Words[((i - 1) % Len(Words)) + 1]
NumeralOf(k) == CHOOSE s \in DOMAIN Numerals : Numerals[s] = k % Cardinality(DOMAIN Numerals)

ColNames == {"zone", "road_type", "num_lanes"}
Patterns == {"words", "numerals", "oneWord", "twoWords", "fewNumerals", "bools",
             "onlyTrue", "onlyFalse", "empty", "boolCase", "boolPlus", "boolEmpty"}

\* the cell of data line i (1-based) under a pattern
CellOf(pattern, i) ==
  CASE pattern = "words" -> WordOf(i)
    [] pattern = "numerals" -> NumeralOf(i - 1)
    [] pattern = "oneWord" -> IF i = 1 THEN WordOf(1) ELSE NumeralOf(i - 1)
    [] pattern = "twoWords" -> IF i <= 2 THEN WordOf(i) ELSE NumeralOf(i - 1)
    [] pattern = "fewNumerals" -> NumeralOf(i % 2)
    [] pattern = "bools" -> IF i % 2 = 1 THEN "True" ELSE "False"
    [] pattern = "onlyTrue" -> "True"
    [] pattern = "onlyFalse" -> "false"
    [] pattern = "empty" -> ""
    [] pattern = "boolCase" -> IF i % 2 = 1 THEN "TRUE" ELSE "false"
    [] pattern = "boolPlus" -> IF i % 3 = 1 THEN "True" ELSE IF i % 3 = 2 THEN "False" ELSE WordOf(1)
    [] OTHER -> IF i % 3 = 1 THEN "True" ELSE IF i % 3 = 2 THEN "" ELSE "False"

\* the text "name,accident_risk" followed by n lines "cell,0"
ColumnText(name, pattern, n) ==
  << <<name, Target>> >> \o [i \in 1..n |-> <<CellOf(pattern, i), "0">>]

ColumnInputs ==
  {LoadInput(TRUE, ColumnText(name, pattern, n), FALSE, SubsetSize) :
     name \in ColNames, pattern \in Patterns, n \in 1..MaxInferRows}

\* ------------------------------------------------------------------------
\* Descriptors for indicesByFilters: one entry per name, and every descriptor
\* that holds some of them; "ghost" is no column of any text
\* ------------------------------------------------------------------------
EntryNames == {"num_lanes", "holiday", "road_type", "zone", "ghost", "constructor"}

EntryFor(k) ==
  CASE k = "num_lanes" -> FilterEntry(Int2Num(2), Int2Num(3), "any", {})
    [] k = "holiday" -> FilterEntry(NegInf, PosInf, "True", {})
    [] k = "road_type" -> FilterEntry(NegInf, PosInf, "any", {"urban"})
    [] k = "zone" -> FilterEntry(NegInf, PosInf, "any", {"a"})
    [] k = "constructor" -> FilterEntry(NegInf, PosInf, "True", {})
    [] OTHER -> FilterEntry(Int2Num(8), Int2Num(9), "False", {"none"})

DescriptorOf(names) == [k \in names |-> EntryFor(k)]

IndexDescriptors == {DescriptorOf(names) : names \in SUBSET EntryNames}

\* the inputs of CoreInputs, and two whose column has a name that plain
\* objects inherit
IndexLoadInputs ==
  CoreInputs
    \cup {LoadInput(TRUE, ColumnText("constructor", "bools", 3), FALSE, SubsetSize),
          LoadInput(TRUE, ColumnText("valueOf", "words", 3), FALSE, SubsetSize)}

\* what loadCSV and #inferSchema log once the fetch has settled
loadLog(inp, threw) ==
  IF ~inp.ok THEN <<>>
  ELSE (IF samplesSubset(inp.text, inp.useSubset, inp.subsetSize)
        THEN <<"Sampling subset">> ELSE <<>>)
       \o <<"CSV loaded">>
       \o (IF threw THEN <<>> ELSE <<"Schema inferred">>)

\* a loadCSV call that has not returned: its arguments and the await it is at,
\* "fetching" (line 17) or "reading" (line 19)
PendingCall(inp, phase) == [inp |-> inp, phase |-> phase]

\* loadCSV up to its first await (lines 15-17): the status and the log line
\* are written, the fetch is under way and the caller holds a promise
LoadCSVCall(inputs, maxPending) ==
  /\ BagCardinality(pendingCalls) < maxPending
  /\ \E inp \in inputs :
       /\ pendingCalls' = pendingCalls (+) SetToBag({PendingCall(inp, "fetching")})
       /\ status' = "loading data"
       /\ logged' = <<"Loading CSV">>
       /\ ret' = MkRet("loadCSV called", <<>>, FALSE, <<>>)
       /\ UNCHANGED <<loaderVars, appVars, schemaRaw, seen>>

\* the fetch of one pending loadCSV settles (lines 17-19): a response that is
\* not ok ends the call with an error, an ok one has its text read, which is
\* the second await; pending calls move on in any order
LoadCSVFetched ==
  \E c \in BagToSet(pendingCalls) :
    /\ c.phase = "fetching"
    /\ pendingCalls' =
         IF c.inp.ok
         THEN (pendingCalls (-) SetToBag({c})) (+) SetToBag({PendingCall(c.inp, "reading")})
         ELSE pendingCalls (-) SetToBag({c})
    /\ logged' = <<>>
    /\ ret' = IF c.inp.ok THEN MkRet("loadCSV fetched", <<>>, FALSE, <<>>)
              ELSE MkRet("loadCSV", c.inp, TRUE, <<>>)
    /\ UNCHANGED <<loaderVars, appVars, status, schemaRaw, seen>>

\* the text of one pending loadCSV settles and the call runs to its end
\* (lines 19-27)
LoadCSVSettle ==
  \E c \in BagToSet(pendingCalls) :
    /\ c.phase = "reading"
    /\ \E inp \in {c.inp} :
       \E r \in {loadCSV(Loader, inp.ok, inp.text, inp.useSubset, inp.subsetSize)} :
         /\ pendingCalls' = pendingCalls (-) SetToBag({c})
         /\ SetLoader(r.L)
         /\ status' = IF r.threw THEN status ELSE "data loaded"
         /\ logged' = loadLog(inp, r.threw)
         /\ ret' = MkRet("loadCSV", inp, r.threw, <<>>)
         /\ schemaRaw' = IF r.threw THEN schemaRaw ELSE r.L.raw
         /\ UNCHANGED <<appVars, seen>>

LoadCSV == LoadCSVCall(CoreInputs, MaxPendingCalls)

\* loadCSV of any text of the pool, sampled down or not
LoadCSVAny == LoadCSVCall(LoadInputs, MaxPendingCalls)

PrepareMatricesWith(seeds) ==
  \E scalerType \in ScalerTypes, seed \in seeds :
    \E r \in {prepareMatrices(Loader, scalerType, seed)} :
       /\ SetLoader(r.L)
       /\ logged' = IF r.threw THEN <<>> ELSE <<"Prepared matrices">>
       /\ ret' = MkRet("prepareMatrices", <<scalerType, seed>>, r.threw, r.val)
       /\ UNCHANGED <<appVars, pendingCalls, status, schemaRaw, seen>>

PrepareMatrices == PrepareMatricesWith(SeedPool)

\* prepareMatrices(scalerType), the seed left to its default
PrepareMatricesDefault == PrepareMatricesWith({DefaultSeed})

GetTensors ==
  \E part \in Parts :
    \E r \in {getTensors(Loader, part)} :
       /\ ret' = MkRet("getTensors", part, r.threw, r.val)
       /\ logged' = <<>>
       /\ UNCHANGED <<loaderVars, appVars, pendingCalls, status, schemaRaw, seen>>

\* the situation of a getFilteredTest call that returned n = 0
Situation(L) == IF L.split.idxTest = <<>> THEN "partition empty" ELSE "zero match"

GetFilteredTest ==
  \E filters \in FilterPool :
    \E r \in {getFilteredTest(Loader, filters)} :
       /\ ret' = MkRet("getFilteredTest", filters, r.threw, r.val)
       /\ logged' = <<>>
       /\ UNCHANGED <<loaderVars, appVars, pendingCalls, status, schemaRaw, seen>>

\* getFilteredTest, with every value it returns for n = 0 kept in seen beside
\* the situation it was returned in
GetFilteredTestSeen ==
  \E filters \in FilterPool :
    \E r \in {getFilteredTest(Loader, filters)} :
       /\ ret' = MkRet("getFilteredTest", filters, r.threw, r.val)
       /\ seen' = IF ~r.threw /\ r.val.n = 0
                  THEN seen \cup {<<Situation(Loader), r.val>>}
                  ELSE seen
       /\ logged' = <<>>
       /\ UNCHANGED <<loaderVars, appVars, pendingCalls, status, schemaRaw>>

IndicesByFilters ==
  \E filters \in FilterPool :
    \E r \in {indicesByFilters(Loader, filters)} :
       /\ ret' = MkRet("indicesByFilters", filters, r.threw, r.val)
       /\ logged' = <<>>
       /\ UNCHANGED <<loaderVars, appVars, pendingCalls, status, schemaRaw, seen>>

Next ==
  \/ LoadCSV
  \/ LoadCSVFetched
  \/ LoadCSVSettle
  \/ PrepareMatrices

Spec == Init /\ [][Next]_vars

\* loadCSV of a one-column text on a new DataLoader
LoadColumn == IsNull(raw) /\ LoadCSVCall(ColumnInputs, 1)

NextInfer ==
  \/ LoadColumn
  \/ LoadCSVFetched
  \/ LoadCSVSettle

SpecInfer == Init /\ [][NextInfer]_vars

\* loading and filtering of the raw rows
LoadCSVIndexed == LoadCSVCall(IndexLoadInputs, MaxPendingCalls)

IndicesByFiltersFrom(descriptors) ==
  \E filters \in descriptors :
    \E r \in {indicesByFilters(Loader, filters)} :
       /\ ret' = MkRet("indicesByFilters", filters, r.threw, r.val)
       /\ logged' = <<>>
       /\ UNCHANGED <<loaderVars, appVars, pendingCalls, status, schemaRaw, seen>>

IndicesByDescriptor == IndicesByFiltersFrom(IndexDescriptors)

NextIndices ==
  \/ LoadCSVIndexed
  \/ LoadCSVFetched
  \/ LoadCSVSettle
  \/ IndicesByDescriptor

SpecIndices == Init /\ [][NextIndices]_vars

\* the same methods, prepareMatrices always called with its default seed
NextDefault ==
  \/ LoadCSVAny
  \/ LoadCSVFetched
  \/ LoadCSVSettle
  \/ PrepareMatricesDefault
  \/ GetTensors
  \/ GetFilteredTest
  \/ IndicesByFilters

SpecDefault == Init /\ [][NextDefault]_vars

\* loading, preparing and filtered extraction, with the returned values kept
NextFiltered ==
  \/ LoadCSV
  \/ LoadCSVFetched
  \/ LoadCSVSettle
  \/ PrepareMatricesDefault
  \/ GetFilteredTestSeen

SpecFiltered == Init /\ [][NextFiltered]_vars

\* ------------------------------------------------------------------------
\* app.js: filter controls, the model calls and the UI handlers
\* ------------------------------------------------------------------------
\* what buildFilterControls puts in a feature's controls
defaultControl(f) ==
  IF f.type = "numeric"
  THEN FilterEntry(IF IsFinite(Val(f.stats).min) THEN Val(f.stats).min ELSE Zero,
                   IF IsFinite(Val(f.stats).max) THEN Val(f.stats).max ELSE Int2Num(1),
                   "any", {})
  ELSE NoConstraint

\* readFeatureFilters: one entry per schema feature, read from the controls;
\* ui holds what the user entered, by feature name, the other controls hold
\* their defaults.  Only options of the select can be selected.
readFeatureFilters(sch, ui) ==
  [k \in DOMAIN sch.features |->
     LET f == sch.features[k]
         c == IF k \in DOMAIN ui THEN ui[k] ELSE defaultControl(f)
     IN IF f.type = "numeric"
        THEN FilterEntry(IF IsFinite(c.min) THEN c.min ELSE NegInf,
                         IF IsFinite(c.max) THEN c.max ELSE PosInf, "any", {})
        ELSE IF f.type = "boolean"
             THEN FilterEntry(NegInf, PosInf,
                              IF c.mode \in {Some("True"), Some("False")}
                              THEN Val(c.mode) ELSE "any", {})
             ELSE FilterEntry(NegInf, PosInf, "any",
                              c.set \cap {Val(f.values)[i] : i \in 1..Len(Val(f.values))})]

\* what the user may have entered in the filter controls
UiPool ==
  { [k \in {} |-> NoConstraint],
    [k \in {"num_lanes"} |-> FilterEntry(Int2Num(8), Int2Num(9), "any", {})],
    [k \in {"road_type", "holiday"} |->
       IF k = "road_type" THEN FilterEntry(NegInf, PosInf, "any", {"urban"})
       ELSE FilterEntry(NegInf, PosInf, "True", {})] }

ArchPool == {"mlp", "cnn1d"}

\* buildModel: a model of the given input length, or an error for a kind
\* other than 'mlp' and 'cnn1d'
buildModelThrows(kind) == kind \notin {"mlp", "cnn1d"}
buildModel(kind, inputLength) == [inputLength |-> inputLength, disposed |-> FALSE]

\* MODEL?.dispose?.() throws for a model that was disposed before
disposeThrows(model) == ~IsNull(model) /\ Val(model).disposed

\* MODEL?.dispose?.()
dispose(model) == IF IsNull(model) THEN model ELSE Some([Val(model) EXCEPT !.disposed = TRUE])

\* the width of the rows handed to the model; none for an empty array
RowWidths(m) == {Len(m[i]) : i \in 1..Len(m)}

\* tf.tensor2d(X) followed by model.fit / model.predict: accepted when X is a
\* non-empty array of rows of the model's input length and the model is live
tfAccepts(model, m) ==
  /\ ~model.disposed
  /\ Len(m) > 0
  /\ UndefinedRow \notin {m[i] : i \in 1..Len(m)}
  /\ RowWidths(m) = {model.inputLength}

Call(fn, model, m) ==
  [fn |-> fn, modelWidth |-> model.inputLength, widths |-> RowWidths(m), rows |-> Len(m)]

\* the files the data source control may name
AppLoadInputs ==
  {LoadInput(FALSE, EmptyText, FALSE, SubsetSize)}
    \cup {LoadInput(TRUE, text, FALSE, SubsetSize) :
            text \in {EmptyText, TextOf(HeaderA, MaxRows), TextOf(HeaderB, MaxRows)}}

\* a model saved in IndexedDB by an earlier session
SavedWidth == 3
IdbPool == {None, Some([inputLength |-> SavedWidth, disposed |-> FALSE])}

\* the numbers of epochs the epochs control may hold
MaxEpochs == 2
EpochPool == 1..MaxEpochs

\* how many model.save calls of each kind may be pending at once
MaxPendingSaves == 1

InitApp == InitFields /\ LOADER = "null" /\ idb \in IdbPool

\* the buttons are enabled: no onLoadData or onTrain is between its
\* setButtonsDisabled(true) and its setButtonsDisabled(false)
ButtonsEnabled == IsNull(busy)

\* s without its element number i
Remove(s, i) == SubSeq(s, 1, i - 1) \o SubSeq(s, i + 1, Len(s))

\* the model a pending model.save holds: its input length, and whether it is
\* still the value of MODEL ("current"), was replaced without being disposed
\* ("detached"), or was disposed after the click ("disposed")
Captured(model) == [inputLength |-> model.inputLength, state |-> "current"]

\* MODEL?.dispose?.() as the pending saves see it
disposeCaptured(pending) ==
  [i \in 1..Len(pending) |->
     IF pending[i].state = "current" THEN [pending[i] EXCEPT !.state = "disposed"]
     ELSE pending[i]]

\* MODEL = (a model just loaded) as the pending saves see it
detachCaptured(pending) ==
  [i \in 1..Len(pending) |->
     IF pending[i].state = "current" THEN [pending[i] EXCEPT !.state = "detached"]
     ELSE pending[i]]

\* whether a pending model.save completes: it does for a live model; for one
\* disposed while the save was under way either outcome is possible
saveOutcomes(captured) == IF captured.state = "disposed" THEN BOOLEAN ELSE {TRUE}

\* onLoadData up to its await (lines 66-73): the buttons are disabled, the
\* loader is created if there is none and loadCSV has run up to its fetch
onLoadDataStart ==
  /\ ButtonsEnabled
  /\ \E inp \in AppLoadInputs :
       busy' = Some([handler |-> "onLoadData", inp |-> inp, phase |-> "fetching",
                     epochs |-> 0, done |-> 0])
  /\ LOADER' = "DataLoader"
  /\ status' = "loading data"
  /\ logged' = <<"Loading data", "Loading CSV">>
  /\ ret' = MkRet("loadCSV called", <<>>, FALSE, <<>>)
  /\ calls' = <<>>
  /\ handler' = "onLoadData"
  /\ UNCHANGED <<loaderVars, MODEL, featNames, idb, pendingLoads, pendingCalls,
                 pendingSaves, pendingExports, schemaRaw, seen>>

\* the fetch of the pending onLoadData settles (data-loader.js:17-19): a
\* response that is not ok ends the handler in its catch and finally blocks
\* (part_002:84-90), an ok one has its text read
onLoadDataFetched ==
  /\ ~IsNull(busy)
  /\ Val(busy).handler = "onLoadData"
  /\ Val(busy).phase = "fetching"
  /\ IF Val(busy).inp.ok
     THEN /\ busy' = Some([Val(busy) EXCEPT !.phase = "reading"])
          /\ logged' = <<>>
          /\ ret' = MkRet("loadCSV fetched", <<>>, FALSE, <<>>)
          /\ UNCHANGED status
     ELSE /\ busy' = None
          /\ logged' = <<"Load error">>
          /\ ret' = MkRet("loadCSV", Val(busy).inp, TRUE, <<>>)
          /\ status' = "error"
  /\ calls' = <<>>
  /\ handler' = "onLoadData"
  /\ UNCHANGED <<loaderVars, LOADER, MODEL, featNames, idb, pendingLoads, pendingCalls,
                 pendingSaves, pendingExports, schemaRaw, seen>>

\* onLoadData once the text has settled (data-loader.js:19-27, part_002:73-91):
\* the rest of loadCSV, then prepareMatrices with the scaler the control holds
\* by then
onLoadDataSettle ==
  /\ ~IsNull(busy)
  /\ Val(busy).handler = "onLoadData"
  /\ Val(busy).phase = "reading"
  /\ \E inp \in {Val(busy).inp}, scaler \in ScalerTypes :
     \E r1 \in {loadCSV(Loader, inp.ok, inp.text, inp.useSubset, inp.subsetSize)} :
     \E r2 \in {prepareMatrices(r1.L, scaler, DefaultSeed)} :
     \E threw \in {r1.threw \/ r2.threw} :
       /\ SetLoader(IF r1.threw THEN r1.L ELSE r2.L)
       /\ schemaRaw' = IF r1.threw THEN schemaRaw ELSE r1.L.raw
       /\ featNames' = IF threw THEN featNames ELSE Some(r2.val)
       /\ status' = IF threw THEN "error" ELSE "data loaded"
       /\ logged' = loadLog(inp, r1.threw)
                      \o (IF threw THEN <<"Load error">>
                          ELSE <<"Prepared matrices", "Data ready">>)
       /\ ret' = IF r1.threw THEN MkRet("loadCSV", inp, TRUE, <<>>)
                 ELSE MkRet("prepareMatrices", <<scaler, DefaultSeed>>, r2.threw, r2.val)
  /\ busy' = None
  /\ calls' = <<>>
  /\ handler' = "onLoadData"
  /\ UNCHANGED <<LOADER, MODEL, idb, pendingLoads, pendingCalls, pendingSaves,
                 pendingExports, seen>>

onBuildModel ==
  /\ ButtonsEnabled
  /\ \E arch \in ArchPool :
       IF LOADER = "null" \/ IsNull(X)
       THEN /\ logged' = <<"Please load data first.">>
            /\ status' = "ready"
            /\ calls' = <<>>
            /\ UNCHANGED <<MODEL, pendingSaves, pendingExports>>
       ELSE IF disposeThrows(MODEL)
       THEN /\ logged' = <<"Build error">>
            /\ status' = "error"
            /\ calls' = <<>>
            /\ UNCHANGED <<MODEL, pendingSaves, pendingExports>>
       ELSE LET inputLength == Len(Val(featNames))
            IN /\ pendingSaves' = disposeCaptured(pendingSaves)
               /\ pendingExports' = disposeCaptured(pendingExports)
               /\ IF buildModelThrows(arch)
                  THEN /\ MODEL' = dispose(MODEL)
                       /\ logged' = <<"Build error">>
                       /\ status' = "error"
                       /\ calls' = <<>>
                  ELSE /\ MODEL' = Some(buildModel(arch, inputLength))
                       /\ logged' = <<"Model built">>
                       /\ status' = "model built"
                       /\ calls' = <<[fn |-> "buildModel", modelWidth |-> inputLength,
                                      widths |-> {}, rows |-> 0]>>
  /\ handler' = "onBuildModel"
  /\ ret' = NoRet
  /\ UNCHANGED <<loaderVars, LOADER, featNames, idb, pendingLoads, pendingCalls, busy,
                 schemaRaw, seen>>

\* onTrain up to its await (lines 118-128). tf.tensor2d and model.fit refuse
\* their arguments before fitModel first yields, so a refused call is over
\* within the click; an accepted one trains while the buttons stay disabled
onTrain ==
  /\ ButtonsEnabled
  /\ handler' = "onTrain"
  /\ IF LOADER = "null" \/ IsNull(MODEL)
     THEN /\ logged' = <<"Need data and model.">>
          /\ calls' = <<>>
          /\ ret' = NoRet
          /\ UNCHANGED <<status, busy>>
     ELSE \E epochs \in EpochPool :
          LET tr == getTensors(Loader, "train")
              va == getTensors(Loader, "val")
              fits == tfAccepts(Val(MODEL), tr.val.X) /\ tfAccepts(Val(MODEL), va.val.X)
          IN /\ calls' = <<Call("fitModel", Val(MODEL), tr.val.X)>>
             /\ logged' = IF fits THEN <<"Training">> ELSE <<"Training", "Train error">>
             /\ status' = IF fits THEN "training" ELSE "error"
             /\ busy' = IF fits
                        THEN Some([handler |-> "onTrain",
                                   inp |-> LoadInput(FALSE, EmptyText, FALSE, SubsetSize),
                                   phase |-> "fitting",
                                   epochs |-> epochs, done |-> 0])
                        ELSE None
             /\ ret' = MkRet("getTensors", "val", va.threw, va.val)
  /\ UNCHANGED <<loaderVars, LOADER, MODEL, featNames, idb, pendingLoads, pendingCalls,
                 pendingSaves, pendingExports, schemaRaw, seen>>

\* the onEpochEnd callback of model.fit (part_000:46-52): one log line per epoch
onEpochEnd ==
  /\ ~IsNull(busy)
  /\ Val(busy).handler = "onTrain"
  /\ Val(busy).done < Val(busy).epochs
  /\ busy' = Some([Val(busy) EXCEPT !.done = @ + 1])
  /\ logged' = <<"ep">>
  /\ calls' = <<>>
  /\ handler' = "onTrain"
  /\ ret' = NoRet
  /\ UNCHANGED <<loaderVars, LOADER, MODEL, featNames, status, idb, pendingLoads,
                 pendingCalls, pendingSaves, pendingExports, schemaRaw, seen>>

\* onTrain from its await on (lines 130-138), once the last epoch has ended
onTrainSettle ==
  /\ ~IsNull(busy)
  /\ Val(busy).handler = "onTrain"
  /\ Val(busy).done = Val(busy).epochs
  /\ busy' = None
  /\ status' = "training complete"
  /\ logged' = <<"Training complete">>
  /\ calls' = <<>>
  /\ handler' = "onTrain"
  /\ ret' = NoRet
  /\ UNCHANGED <<loaderVars, LOADER, MODEL, featNames, idb, pendingLoads, pendingCalls,
                 pendingSaves, pendingExports, schemaRaw, seen>>

\* evaluateOn: predict, then the three charts and the log line; an error of
\* predict leaves the handler before anything is rendered
evaluateCalls(model, m) ==
  IF tfAccepts(model, m)
  THEN <<Call("predict", model, m), Call("renderMetrics", model, m),
         Call("renderHistogram", model, m), Call("renderScatter", model, m)>>
  ELSE <<Call("predict", model, m)>>

onEvaluateFiltered ==
  /\ ButtonsEnabled
  /\ \E ui \in UiPool :
       IF LOADER = "null" \/ IsNull(MODEL)
       THEN /\ logged' = <<"Need data and model.">>
            /\ calls' = <<>>
            /\ ret' = NoRet
            /\ UNCHANGED status
       ELSE IF IsNull(schema)
       THEN \* readFeatureFilters(null) throws inside getFilteredTest
            /\ status' = "evaluating"
            /\ logged' = <<>>
            /\ calls' = <<>>
            /\ ret' = MkRet("getFilteredTest", ui, TRUE, [X |-> <<>>, y |-> <<>>, n |-> -1])
       ELSE \E filtered \in {getFilteredTest(Loader, readFeatureFilters(Val(schema), ui))} :
               /\ ret' = MkRet("getFilteredTest", ui, filtered.threw, filtered.val)
               /\ IF filtered.threw
                  THEN /\ status' = "evaluating"
                       /\ logged' = <<>>
                       /\ calls' = <<>>
                  ELSE IF filtered.val.n = 0
                  THEN /\ status' = "ready"
                       /\ logged' = <<"Filtered test is empty. Relax filters.">>
                       /\ calls' = <<>>
                  ELSE /\ calls' = evaluateCalls(Val(MODEL), filtered.val.X)
                       /\ logged' = IF tfAccepts(Val(MODEL), filtered.val.X)
                                    THEN <<"Eval">> ELSE <<>>
                       /\ status' = IF tfAccepts(Val(MODEL), filtered.val.X)
                                    THEN "evaluation done" ELSE "evaluating"
  /\ handler' = "onEvaluateFiltered"
  /\ UNCHANGED <<loaderVars, LOADER, MODEL, featNames, idb, pendingLoads, pendingCalls,
                 pendingSaves, pendingExports, busy, schemaRaw, seen>>

onEvaluateFull ==
  /\ ButtonsEnabled
  /\ handler' = "onEvaluateFull"
  /\ IF LOADER = "null" \/ IsNull(MODEL)
     THEN /\ logged' = <<"Need data and model.">>
          /\ calls' = <<>>
          /\ ret' = NoRet
          /\ UNCHANGED status
     ELSE \E te \in {getTensors(Loader, "test")} :
             /\ ret' = MkRet("getTensors", "test", te.threw, te.val)
             /\ calls' = evaluateCalls(Val(MODEL), te.val.X)
             /\ logged' = IF tfAccepts(Val(MODEL), te.val.X) THEN <<"Eval">> ELSE <<>>
             /\ status' = IF tfAccepts(Val(MODEL), te.val.X)
                          THEN "evaluation done" ELSE "evaluating"
  /\ UNCHANGED <<loaderVars, LOADER, MODEL, featNames, idb, pendingLoads, pendingCalls,
                 pendingSaves, pendingExports, busy, schemaRaw, seen>>

\* onSaveIdx up to its await (lines 207-208): model.save of a disposed model
\* rejects within the click, and nothing catches it; a live model's save is
\* under way while the buttons stay enabled
onSaveIdx ==
  /\ ButtonsEnabled
  /\ handler' = "onSaveIdx"
  /\ calls' = <<>>
  /\ ret' = NoRet
  /\ IF IsNull(MODEL)
     THEN logged' = <<"Build a model first.">> /\ UNCHANGED pendingSaves
     ELSE /\ logged' = <<>>
          /\ IF Val(MODEL).disposed
             THEN UNCHANGED pendingSaves
             ELSE /\ Len(pendingSaves) < MaxPendingSaves
                  /\ pendingSaves' = Append(pendingSaves, Captured(Val(MODEL)))
  /\ UNCHANGED <<loaderVars, LOADER, MODEL, featNames, status, idb, pendingLoads,
                 pendingCalls, pendingExports, busy, schemaRaw, seen>>

\* onSaveIdx from its await on (line 209): the model is stored and the line
\* is logged, or the save rejects and nothing catches it
onSaveIdxSettle ==
  /\ \E i \in 1..Len(pendingSaves) : \E completes \in saveOutcomes(pendingSaves[i]) :
       /\ pendingSaves' = Remove(pendingSaves, i)
       /\ idb' = IF completes
                 THEN Some([inputLength |-> pendingSaves[i].inputLength, disposed |-> FALSE])
                 ELSE idb
       /\ logged' = IF completes THEN <<"Saved to IndexedDB.">> ELSE <<>>
  /\ handler' = "onSaveIdx"
  /\ calls' = <<>>
  /\ ret' = NoRet
  /\ UNCHANGED <<loaderVars, LOADER, MODEL, featNames, status, pendingLoads, pendingCalls,
                 pendingExports, busy, schemaRaw, seen>>

\* onLoadIdx up to its await: the current model is disposed and the load is
\* started; the buttons stay enabled while it is pending. A model disposed
\* before makes dispose throw, and the catch block logs the error
onLoadIdxStart ==
  /\ ButtonsEnabled
  /\ IF disposeThrows(MODEL)
     THEN /\ logged' = <<"Load error">>
          /\ UNCHANGED <<MODEL, pendingLoads, pendingSaves, pendingExports>>
     ELSE /\ pendingLoads < MaxPendingLoads
          /\ pendingLoads' = pendingLoads + 1
          /\ MODEL' = dispose(MODEL)
          /\ pendingSaves' = disposeCaptured(pendingSaves)
          /\ pendingExports' = disposeCaptured(pendingExports)
          /\ logged' = <<>>
  /\ handler' = "onLoadIdx"
  /\ calls' = <<>>
  /\ ret' = NoRet
  /\ UNCHANGED <<loaderVars, LOADER, featNames, status, idb, pendingCalls, busy,
                 schemaRaw, seen>>

\* onLoadIdx after its await: the stored model, or the error when none is stored
onLoadIdxSettle ==
  /\ pendingLoads > 0
  /\ pendingLoads' = pendingLoads - 1
  /\ handler' = "onLoadIdx"
  /\ calls' = <<>>
  /\ ret' = NoRet
  /\ IF IsNull(idb)
     THEN /\ logged' = <<"Load error">>
          /\ UNCHANGED <<MODEL, status, pendingSaves, pendingExports>>
     ELSE /\ MODEL' = idb
          /\ pendingSaves' = detachCaptured(pendingSaves)
          /\ pendingExports' = detachCaptured(pendingExports)
          /\ logged' = <<"Loaded from IndexedDB.">>
          /\ status' = "model loaded"
  /\ UNCHANGED <<loaderVars, LOADER, featNames, idb, pendingCalls, busy, schemaRaw, seen>>

\* onExport up to its await (lines 222-223), like onSaveIdx
onExport ==
  /\ ButtonsEnabled
  /\ handler' = "onExport"
  /\ calls' = <<>>
  /\ ret' = NoRet
  /\ IF IsNull(MODEL)
     THEN logged' = <<"Build a model first.">> /\ UNCHANGED pendingExports
     ELSE /\ logged' = <<>>
          /\ IF Val(MODEL).disposed
             THEN UNCHANGED pendingExports
             ELSE /\ Len(pendingExports) < MaxPendingSaves
                  /\ pendingExports' = Append(pendingExports, Captured(Val(MODEL)))
  /\ UNCHANGED <<loaderVars, LOADER, MODEL, featNames, status, idb, pendingLoads,
                 pendingCalls, pendingSaves, busy, schemaRaw, seen>>

\* onExport from its await on (line 224)
onExportSettle ==
  /\ \E i \in 1..Len(pendingExports) : \E completes \in saveOutcomes(pendingExports[i]) :
       /\ pendingExports' = Remove(pendingExports, i)
       /\ logged' = IF completes THEN <<"Downloaded model.json and weights.bin">> ELSE <<>>
  /\ handler' = "onExport"
  /\ calls' = <<>>
  /\ ret' = NoRet
  /\ UNCHANGED <<loaderVars, LOADER, MODEL, featNames, status, idb, pendingLoads,
                 pendingCalls, pendingSaves, busy, schemaRaw, seen>>

NextApp ==
  \/ onLoadDataStart
  \/ onLoadDataFetched
  \/ onLoadDataSettle
  \/ onBuildModel
  \/ onTrain
  \/ onEpochEnd
  \/ onTrainSettle
  \/ onEvaluateFiltered
  \/ onEvaluateFull
  \/ onSaveIdx
  \/ onSaveIdxSettle
  \/ onLoadIdxStart
  \/ onLoadIdxSettle
  \/ onExport
  \/ onExportSettle

SpecApp == InitApp /\ [][NextApp]_vars

\* ------------------------------------------------------------------------
\* Properties
\* ------------------------------------------------------------------------
\* the state right after a prepareMatrices call that returned
Prepared == ret.op = "prepareMatrices" /\ ~ret.threw

SplitAll == split.idxTrain \o split.idxVal \o split.idxTest

\* the 0-based columns a feature's cells occupy in an encoded row, read off
\* the encoder (the cells every feature before it pushes)
WidthOf(f, enc) == Len(encodeCell(MkRow(<<>>, <<>>), f, enc))
OffsetOf(sch, enc, i) ==
  SumSeq([j \in 1..(i - 1) |-> WidthOf(sch.features[sch.cols[j]], enc)])
ColumnsOf(sch, enc, i) ==
  {OffsetOf(sch, enc, i) + d : d \in 0..(WidthOf(sch.features[sch.cols[i]], enc) - 1)}
ColumnsOfTypes(sch, enc, types) ==
  UNION {ColumnsOf(sch, enc, i) : i \in {j \in 1..Len(sch.cols) : sch.features[sch.cols[j]].type \in types}}

\* C1: after prepareMatrices the three index lists are pairwise disjoint,
\* hold every index of [0, N) exactly once and nothing else, and have sizes
\* floor(0.7N), floor(0.15N) and the remainder, for every seed
C1_SplitIsPartition ==
  Prepared =>
    LET N == Len(Val(raw))
    IN /\ Len(split.idxTrain) = (7 * N) \div 10
       /\ Len(split.idxVal) = (15 * N) \div 100
       /\ Len(SplitAll) = N
       /\ \A i \in 0..(N - 1) : Cardinality({p \in 1..Len(SplitAll) : SplitAll[p] = i}) = 1

\* C2: whenever X is non-null, X, y and raw have the same number of rows,
\* every split index is a row index of raw, and y is the target column of raw
C2_MatricesAlignedWithRaw ==
  ~IsNull(X) =>
    /\ Len(Val(X)) = Len(Val(raw))
    /\ Len(Val(y)) = Len(Val(raw))
    /\ \A p \in 1..Len(SplitAll) : SplitAll[p] \in 0..(Len(Val(raw)) - 1)
    /\ Val(y) = encodeY(Val(raw), Val(schema))

\* C3: a loadCSV or prepareMatrices call that throws leaves raw, schema,
\* encoders, scalers, X, y and split as they were
C3_FailureLeavesStateUntouched ==
  [][(ret'.op \in {"loadCSV", "prepareMatrices"} /\ ret'.threw) => UNCHANGED loaderVars]_vars

\* C4: the columns the scaler fits and rescales are exactly the columns the
\* encoder emitted for numeric and boolean features, and every one-hot column
\* holds after scaling the 0/1 the encoder wrote
C4_ScaledColumnsAreNumericColumns ==
  Prepared =>
    LET sch == Val(schema)
        numeric == ColumnsOfTypes(sch, encoders, {"numeric", "boolean"})
        onehot == ColumnsOfTypes(sch, encoders, {"categorical"})
        walked == numericColIdx(sch, encoders)
        before == encodeX(Val(raw), sch, encoders)
    IN /\ {walked[i] : i \in 1..Len(walked)} = numeric
       /\ DOMAIN scalers.stats = numeric
       /\ \A i \in 1..Len(before) : \A c \in onehot :
            /\ Val(X)[i][c + 1] = before[i][c + 1]
            /\ Val(X)[i][c + 1] \in {Zero, Int2Num(1)}

\* C4 witness: a prepared dataset whose schema has a categorical feature with
\* two or more categories in front of a numeric and a boolean feature
C4_Witness ==
  /\ Prepared
  /\ Len(Val(X)) > 0
  /\ \E i, j, k \in 1..Len(Val(schema).cols) :
       /\ i < j
       /\ Val(schema).features[Val(schema).cols[i]].type = "categorical"
       /\ Len(Cats(encoders, Val(schema).cols[i])) >= 2
       /\ Val(schema).features[Val(schema).cols[j]].type = "numeric"
       /\ Val(schema).features[Val(schema).cols[k]].type = "boolean"

\* the width the schema prescribes: 1 per numeric or boolean feature, the
\* number of categories per categorical feature
SchemaWidth(sch) ==
  SumSeq([i \in 1..Len(sch.cols) |->
            IF sch.features[sch.cols[i]].type \in {"numeric", "boolean"} THEN 1
            ELSE Len(Val(sch.features[sch.cols[i]].values))])

\* C5: after prepareMatrices every row of X has the width the schema
\* prescribes, which is the length of the returned featNames
C5_RowWidth ==
  Prepared =>
    /\ \A i \in 1..Len(Val(X)) : Len(Val(X)[i]) = SchemaWidth(Val(schema))
    /\ Len(ret.val) = SchemaWidth(Val(schema))

\* C5 witness: a prepared dataset with rows, a categorical feature of two or
\* more categories and a boolean feature
C5_Witness ==
  /\ Prepared
  /\ Len(Val(X)) >= 2
  /\ \E k \in DOMAIN encoders : Len(encoders[k]) >= 2
  /\ \E k \in DOMAIN Val(schema).features : Val(schema).features[k].type = "boolean"

\* a wider set of descriptors for the properties of the two row loops
DescriptorPool ==
  FilterPool \cup
  { [k \in {"num_lanes"} |-> FilterEntry(Int2Num(2), Int2Num(3), "any", {})],
    [k \in {"holiday"} |-> FilterEntry(NegInf, PosInf, "False", {})],
    [k \in {"road_type", "zone"} |-> FilterEntry(NegInf, PosInf, "any", {"rural", "a"})] }

\* C6: on a prepared dataset getFilteredTest passes exactly the indices of
\* idxTest that indicesByFilters returns for the same descriptor, returns
\* X[i] and y[i] for them in idxTest order, and n is their count
C6_FilteredTestMatchesIndices ==
  Prepared =>
    \A filters \in DescriptorPool :
      LET got == getFilteredTest(Loader, filters)
          all == indicesByFilters(Loader, filters)
          expected == SelectSeq(split.idxTest, LAMBDA i : Contains(all.val, i))
      IN /\ ~got.threw
         /\ ~all.threw
         /\ got.val.n = Len(expected)
         /\ got.val.X = [p \in 1..Len(expected) |-> Val(X)[expected[p] + 1]]
         /\ got.val.y = [p \in 1..Len(expected) |-> Val(y)[expected[p] + 1]]

\* the loader a fresh load of the same rows and schema gives
FreshOf(rows, sch) == [NewLoader EXCEPT !.raw = rows, !.schema = sch]

\* C7: prepareMatrices leaves raw and schema alone, and what it leaves in
\* encoders, scalers, X, y and split and what it returns is what the same call
\* gives on a freshly loaded dataset, whatever an earlier call left behind
C7_PrepareReplacesEverything ==
  [][ret'.op = "prepareMatrices" =>
       \A fresh \in {prepareMatrices(FreshOf(raw, schema), ret'.arg[1], ret'.arg[2])} :
          /\ raw' = raw
          /\ schema' = schema
          /\ ret'.threw = fresh.threw
          /\ ret'.val = fresh.val
          /\ encoders' = fresh.L.encoders
          /\ scalers' = fresh.L.scalers
          /\ X' = fresh.L.X
          /\ y' = fresh.L.y
          /\ split' = fresh.L.split]_vars

\* C7 witness: prepareMatrices has returned on a loader that an earlier call
\* had prepared with the other scaler type, for other rows
C7_Witness ==
  /\ Prepared
  /\ ~IsNull(ret.prior)
  /\ Val(ret.prior) # ret.arg[1]
  /\ Len(Val(X)) >= 2
  /\ DOMAIN scalers.stats # {}

\* C8: a getFilteredTest that matched no row of a non-empty test partition
\* and one that found the test partition empty never return the same value
C8_ZeroMatchDistinctFromEmptyPartition ==
  \A a, b \in seen : a[1] # b[1] => a[2] # b[2]

\* the one-hot block of categorical feature number i in row r of X
BlockOf(sch, enc, i, xrow) ==
  SubSeq(xrow, OffsetOf(sch, enc, i) + 1,
         OffsetOf(sch, enc, i) + WidthOf(sch.features[sch.cols[i]], enc))
Ones(block) == Cardinality({p \in 1..Len(block) : block[p] = Int2Num(1)})

\* the strings column k holds in the rows the schema was inferred from
SeenValues(k) == {Get(Val(schemaRaw)[j], k) : j \in 1..Len(Val(schemaRaw))}

CategoricalCols(sch) == {i \in 1..Len(sch.cols) : sch.features[sch.cols[i]].type = "categorical"}

\* C10 as stated: every one-hot block holds at most one 1, and holds none only
\* when the row's value occurs in no row the schema was inferred from
C10_NoOneOnlyWhenUnseen ==
  Prepared =>
    \A r \in 1..Len(Val(X)) : \A i \in CategoricalCols(Val(schema)) :
      LET block == BlockOf(Val(schema), encoders, i, Val(X)[r])
          v == Get(Val(raw)[r], Val(schema).cols[i])
      IN /\ Ones(block) <= 1
         /\ Ones(block) = 0 => v \notin SeenValues(Val(schema).cols[i])

\* C10 amended: every one-hot block holds at most one 1, and holds none only
\* when the row's value is '' or 'undefined' or occurs in no row the schema
\* was inferred from
C10_NoOneOnlyWhenUnseenOrEmpty ==
  Prepared =>
    \A r \in 1..Len(Val(X)) : \A i \in CategoricalCols(Val(schema)) :
      LET block == BlockOf(Val(schema), encoders, i, Val(X)[r])
          v == Get(Val(raw)[r], Val(schema).cols[i])
      IN /\ Ones(block) <= 1
         /\ Ones(block) = 0 =>
              v \in {"", "undefined"} \/ v \notin SeenValues(Val(schema).cols[i])

\* C10 witness: a prepared dataset with a categorical feature of two or more
\* categories where one row's block holds a 1, another row's block holds none
\* for an empty cell
C10_Witness ==
  /\ Prepared
  /\ \E i \in CategoricalCols(Val(schema)) :
       /\ Len(Cats(encoders, Val(schema).cols[i])) >= 2
       /\ \E r1, r2 \in 1..Len(Val(X)) :
            /\ Ones(BlockOf(Val(schema), encoders, i, Val(X)[r1])) = 1
            /\ Ones(BlockOf(Val(schema), encoders, i, Val(X)[r2])) = 0
            /\ Get(Val(raw)[r2], Val(schema).cols[i]) = ""


\* the positions of the test partition whose row exists and passes the filter
\* that the controls ui describe
PassingTestRows(ui) ==
  IF IsNull(raw) \/ IsNull(schema) THEN {}
  ELSE {p \in 1..Len(split.idxTest) :
          /\ ~NoRow(Val(raw), split.idxTest[p])
          /\ rowOkFiltered(Val(raw)[split.idxTest[p] + 1], Val(schema),
                           readFeatureFilters(Val(schema), ui))}

\* Evaluate (Filtered) got past its guard: there is a loader and a model
EvaluatedFiltered ==
  /\ handler = "onEvaluateFiltered"
  /\ LOADER # "null"
  /\ ~IsNull(MODEL)

EmptyReported ==
  /\ \A i \in 1..Len(calls) :
       calls[i].fn \notin {"predict", "renderMetrics", "renderHistogram", "renderScatter"}
  /\ \E i \in 1..Len(logged) : logged[i] = "Filtered test is empty. Relax filters."
  /\ status = "ready"

\* C9: whenever Evaluate (Filtered) runs and no test-partition row passes the
\* filter, neither predict nor any chart or metric rendering is invoked, an
\* 'empty' message is logged and the status is 'ready'.
C9_EmptyFilteredTestReported ==
  (EvaluatedFiltered /\ PassingTestRows(ret.arg) = {}) => EmptyReported

\* The handler does report it whenever getFilteredTest returned with n = 0.
EmptyReturnIsReported ==
  (EvaluatedFiltered /\ ret.op = "getFilteredTest" /\ ~ret.threw /\ ret.val.n = 0)
    => EmptyReported

\* The handler left by an error of getFilteredTest, and the one that reported.
EvaluateFilteredThrew ==
  EvaluatedFiltered /\ ret.op = "getFilteredTest" /\ ret.threw
EvaluateFilteredReported ==
  EvaluatedFiltered /\ ret.op = "getFilteredTest" /\ ~ret.threw /\ ret.val.n = 0


\* ------------------------------------------------------------------------
\* Schema inference on a column
\* ------------------------------------------------------------------------
\* the cells of column col in the rows the schema was inferred from
ColumnCells(col) == [i \in 1..Len(Val(schemaRaw)) |-> Get(Val(schemaRaw)[i], col)]

\* the number of cells that parse as finite numbers, and of distinct strings
FiniteCount(cells) == Cardinality({i \in 1..Len(cells) : IsFinite(Number(cells[i]))})
DistinctCount(cells) == Cardinality({cells[i] : i \in 1..Len(cells)})

InKnownList(col) == col \in knownCategoricals \/ col \in knownNumeric

\* the type a column was classified as, before a categorical candidate is
\* recast as boolean
ClassifiedNumeric(col) == Val(schema).features[col].type = "numeric"

Inferred == ~IsNull(schema) /\ ~IsNull(schemaRaw)

\* C11: a column in neither name list is numeric only if more than 0.9 of the
\* sampled values parse as finite numbers, and is categorical whenever the
\* sampled values have at most 10 distinct strings; a column in a name list
\* gets that list's type whatever its values are.
C11_TypeFollowsListsThenSniff ==
  Inferred =>
    \A i \in 1..Len(Val(schema).cols) :
      LET col == Val(schema).cols[i]
          cells == ColumnCells(col)
      IN /\ (~InKnownList(col) /\ ClassifiedNumeric(col))
              => 10 * FiniteCount(cells) > 9 * Len(cells)
         /\ (~InKnownList(col) /\ DistinctCount(cells) <= MaxUniq)
              => ~ClassifiedNumeric(col)
         /\ col \in knownNumeric => ClassifiedNumeric(col)
         /\ (col \in knownCategoricals /\ col \notin knownNumeric)
              => ~ClassifiedNumeric(col)

\* The parts of C11 other than 'numeric only if': the override by at most 10
\* distinct strings, and the name lists.
OverrideAndListsRespected ==
  Inferred =>
    \A i \in 1..Len(Val(schema).cols) :
      LET col == Val(schema).cols[i]
          cells == ColumnCells(col)
      IN /\ (~InKnownList(col) /\ DistinctCount(cells) <= MaxUniq)
              => ~ClassifiedNumeric(col)
         /\ col \in knownNumeric => ClassifiedNumeric(col)
         /\ (col \in knownCategoricals /\ col \notin knownNumeric)
              => ~ClassifiedNumeric(col)


\* the distinct non-empty, non-'undefined' cells of a column, lowercased
LoweredValues(cells) ==
  {toLowerCase(cells[i]) : i \in {j \in 1..Len(cells) : cells[j] \notin {"", "undefined"}}}

IsBooleanFeature(f) ==
  f.type = "boolean" /\ f.values = Some(<<"True", "False">>)

\* C12: a categorical-candidate column is recast as boolean with values
\* ['True','False'] exactly when its distinct non-empty, non-'undefined'
\* values, lowercased, are {'true','false'}; in every other case it stays
\* categorical.
C12_BooleanExactlyWhenTrueAndFalse ==
  Inferred =>
    \A i \in 1..Len(Val(schema).cols) :
      LET col == Val(schema).cols[i]
          f == Val(schema).features[col]
      IN ~ClassifiedNumeric(col) =>
           IF LoweredValues(ColumnCells(col)) = {"true", "false"}
           THEN IsBooleanFeature(f)
           ELSE f.type = "categorical"

\* What the recast does decide: boolean when both values are observed and
\* nothing else, categorical when any other value is present.
BooleanWhenBothCategoricalWhenOther ==
  Inferred =>
    \A i \in 1..Len(Val(schema).cols) :
      LET col == Val(schema).cols[i]
          f == Val(schema).features[col]
          lowered == LoweredValues(ColumnCells(col))
      IN ~ClassifiedNumeric(col) =>
           /\ lowered = {"true", "false"} => IsBooleanFeature(f)
           /\ ~(lowered \subseteq {"true", "false"}) => f.type = "categorical"
           /\ lowered \subseteq {"true", "false"} => IsBooleanFeature(f)


\* ------------------------------------------------------------------------
\* indicesByFilters and the descriptor
\* ------------------------------------------------------------------------
\* a is an order-preserving subsequence of b (b without repeated elements)
IsSubsequence(a, b) == a = SelectSeq(b, LAMBDA x : Contains(a, x))

AllIndices == [p \in 1..Len(Val(raw)) |-> p - 1]

SchemaFeatures == {Val(schema).cols[i] : i \in 1..Len(Val(schema).cols)}

\* indicesByFilters was called on a loader that holds rows and a schema
FilteredIndices ==
  /\ ret.op = "indicesByFilters"
  /\ ~IsNull(raw)
  /\ ~IsNull(schema)

\* the three parts of C13 for the call that just returned
DescriptorLaws ==
  LET D == ret.arg
  IN /\ ~ret.threw
     /\ D = DescriptorOf({}) => ret.val = AllIndices
     /\ \A k \in EntryNames \ DOMAIN D :
          LET more == indicesByFilters(Loader, DescriptorOf(DOMAIN D \cup {k}))
          IN ~more.threw /\ IsSubsequence(more.val, ret.val)
     /\ \A k \in DOMAIN D \ SchemaFeatures :
          ret.val = indicesByFilters(Loader, DescriptorOf(DOMAIN D \ {k})).val

\* C13: indicesByFilters with an empty descriptor returns every row index in
\* ascending order; a descriptor with an entry for one more feature gives an
\* order-preserving subsequence of the result; an entry naming a feature that
\* is not in the schema changes nothing and raises no error.
C13_DescriptorLaws == FilteredIndices => DescriptorLaws

\* The same laws on the schemas none of whose features has a name that the
\* descriptor object inherits.
DescriptorLawsForOwnNames ==
  (FilteredIndices /\ SchemaFeatures \cap InheritedKeys = {}) => DescriptorLaws


\* ------------------------------------------------------------------------
\* The model's input width and the encoded matrix
\* ------------------------------------------------------------------------
ModelCalls == {i \in 1..Len(calls) : calls[i].fn \in {"fitModel", "predict"}}

\* C14: in every sequence of UI actions, whenever fitModel or predict is
\* invoked, the input width of the current MODEL equals the column count of
\* the current LOADER.X, the length of the featNames that the latest
\* prepareMatrices returned.
C14_ModelWidthIsMatrixWidth ==
  \A i \in ModelCalls :
    /\ ~IsNull(X)
    /\ ~IsNull(featNames)
    /\ calls[i].modelWidth = Len(Val(featNames))
    /\ \A r \in 1..Len(Val(X)) : Len(Val(X)[r]) = calls[i].modelWidth

\* The same for the calls made with a model that Build Model made from the
\* data now loaded, whatever is stored in IndexedDB: it fails too.
BuiltModelWidthIsMatrixWidth ==
  \A i \in ModelCalls :
    calls[i].modelWidth # SavedWidth =>
      (~IsNull(featNames) /\ calls[i].modelWidth = Len(Val(featNames)))

====
